---------------------------- MODULE Spec2Model ----------------------------
(***************************************************************************)
(* Model of the compiled chat front-end: the auto-scroll controller of the *)
(* message container (Div_252876922894813804595560029172812129822) and the *)
(* handlers that hand events to the dispatcher.                            *)
(*                                                                         *)
(* The container is the object the code reads and writes through           *)
(* ref_dsholwzz.current: scrollTop holds the value last assigned to it     *)
(* (by the user's scrolling or by line 183), scrollHeight and clientHeight *)
(* are set by layout.                                                      *)
(***************************************************************************)
EXTENDS Integers, Sequences, FiniteSets

(* ------------------------------ bounds --------------------------------- *)
\* Geometry is drawn from the grid {0, Unit, 2*Unit, ..., MaxUnits*Unit}.
Unit == 25
MaxUnits == 5
\* Closure identities available to effect runs (listener / observer ids).
MaxClosures == 2
\* Saturation of the count of consecutive content mutations.
MaxSeq == 2
\* Events the dispatcher's queue holds before a submission has to wait.
MaxQueue == 2

Grid == {Unit * i : i \in 0..MaxUnits}
Ids == 1..MaxClosures
NoCleanup == 0

(* ------------------------ program constants ---------------------------- *)
nearBottomThreshold == 50
CreateChatEvent == "reflex___state____state.chat___state____state.create_chat"
ProcessQuestionEvent ==
  "reflex___state____state.chat___state____state.process_question"

SetIsModalOpenEvent ==
  "reflex___state____state.chat___state____state.set_is_modal_open"
SetChatEvent == "reflex___state____state.chat___state____state.set_chat"
DeleteChatEvent == "reflex___state____state.chat___state____state.delete_chat"

\* Titles the remote state lists in chat_titles (line 266).
ChatTitles == {"Intros", "Notes"}

\* Texts a user types into a field; "" is the value a reset restores.
Texts == {"", "a", "b"}

VARIABLES
  ref,              \* ref_dsholwzz.current is a container (TRUE) or null
  scrollTop,        \* container.scrollTop
  scrollHeight,     \* container.scrollHeight
  clientHeight,     \* container.clientHeight
  wasNearBottom,    \* wasNearBottom_ref_dsholwzz.current
  hadScrollbar,     \* hadScrollbar_ref_dsholwzz.current
  scrollListeners,  \* 'scroll' listeners registered on the container
  resizeObservers,  \* ResizeObservers observing the container
  cleanup,          \* cleanup returned by the last effect run (id) or none
  effectPending,    \* a render was committed and its effect has not run
  \* history of the run, read by the properties only
  last,             \* the handler that ran last
  wrote,            \* the last handler executed the assignment of line 183
  pre,              \* snapshot of the state the last handler started from
  farRun,           \* last sample: overflowing and far; only growths since
  sampledHeight,    \* scrollHeight at the last sample
  seqLen,           \* consecutive content mutations just performed
  shadow,           \* the same mutations with a reconcile after each
  pending,          \* content mutation not yet reconciled: what preceded it
  \* the two forms and the dispatcher's queue
  newChatName,      \* value of the field new_chat_name of the create-chat form
  question,         \* value of the field ref_question of the question form
  eventQueue,       \* events handed to addEvents and not yet processed
  lastForm,         \* history: the form handler that ran last
  preForm           \* history: the fields and queue it started from

scrollVars == <<ref, scrollTop, scrollHeight, clientHeight, wasNearBottom,
                hadScrollbar, scrollListeners, resizeObservers, cleanup,
                effectPending, last, wrote, pre, farRun, sampledHeight,
                seqLen, shadow, pending>>

formVars == <<newChatName, question, eventQueue, lastForm, preForm>>

vars == <<scrollVars, formVars>>

(* ------------------- the controller's computations --------------------- *)
\* line 164
DistanceFromBottom(st, sh, ch) == sh - st - ch

\* lines 169 and 177
HasScrollbar(sh, ch) == sh > ch

\* The comparison of line 166 written with < instead of <=.
IsNearBottom_Strict(st, sh, ch) ==
  DistanceFromBottom(st, sh, ch) < nearBottomThreshold

\* line 166
IsNearBottom(st, sh, ch) == DistanceFromBottom(st, sh, ch) <= nearBottomThreshold

\* lines 158-170: the flags after sample
checkIfNearBottom(present, st, sh, ch, was, had) ==
  IF ~present
    THEN [wasNearBottom |-> was, hadScrollbar |-> had]
    ELSE [wasNearBottom |-> IsNearBottom(st, sh, ch),
          hadScrollbar  |-> HasScrollbar(sh, ch)]

\* Line 182 without the test of hasScrollbarNow.
ShouldScroll_NoNow(was, had, hasScrollbarNow) == was \/ ~had

\* Line 182 without its second disjunct.
ShouldScroll_NearOnly(was, had, hasScrollbarNow) == was

\* Line 182 without the test of hadScrollbar.
ShouldScroll_NoHad(was, had, hasScrollbarNow) == was \/ hasScrollbarNow

\* Line 182 testing for any change of the scrollbar state.
ShouldScroll_AnyChange(was, had, hasScrollbarNow) ==
  was \/ (had # hasScrollbarNow)

\* line 182
ShouldScroll(was, had, hasScrollbarNow) == was \/ (~had /\ hasScrollbarNow)

\* Lines 173-188 without the update of line 187.
scrollToBottomIfNeeded_NoUpdate(present, st, sh, ch, was, had) ==
  IF ~present
    THEN [scrollTop |-> st, hadScrollbar |-> had, wrote |-> FALSE]
    ELSE LET go == ShouldScroll(was, had, HasScrollbar(sh, ch))
         IN [scrollTop |-> IF go THEN sh ELSE st, hadScrollbar |-> had,
             wrote |-> go]

\* Lines 173-188 without the guard of line 174.
scrollToBottomIfNeeded_NoGuard(present, st, sh, ch, was, had) ==
  LET go == ShouldScroll(was, had, HasScrollbar(sh, ch))
  IN [scrollTop |-> IF go THEN sh ELSE st,
      hadScrollbar |-> HasScrollbar(sh, ch), wrote |-> go]

\* lines 173-188: scrollTop and hadScrollbar after reconcile
scrollToBottomIfNeeded(present, st, sh, ch, was, had) ==
  IF ~present
    THEN [scrollTop |-> st, hadScrollbar |-> had, wrote |-> FALSE]
    ELSE LET hasScrollbarNow == HasScrollbar(sh, ch)
             go == ShouldScroll(was, had, hasScrollbarNow)
         IN [scrollTop    |-> IF go THEN sh ELSE st,
             hadScrollbar |-> hasScrollbarNow,
             wrote        |-> go]

(* ------------------------------ history -------------------------------- *)
Snapshot == [ref |-> ref, scrollTop |-> scrollTop,
             scrollHeight |-> scrollHeight,
             wasNearBottom |-> wasNearBottom, hadScrollbar |-> hadScrollbar,
             last |-> last, farRun |-> farRun, pending |-> pending,
             listeners |-> scrollListeners, observers |-> resizeObservers]

NoShadow == [scrollTop |-> 0, hadScrollbar |-> FALSE, transition |-> FALSE]

Min(a, b) == IF a < b THEN a ELSE b

(* ------------------------------- Init ---------------------------------- *)
Init ==
  /\ ref = FALSE
  /\ scrollTop = 0 /\ scrollHeight = 0 /\ clientHeight = 0
  /\ wasNearBottom = FALSE /\ hadScrollbar = FALSE
  /\ scrollListeners = {} /\ resizeObservers = {}
  /\ cleanup = NoCleanup
  /\ effectPending = FALSE
  /\ last = "init" /\ wrote = FALSE
  /\ farRun = FALSE /\ sampledHeight = 0
  /\ seqLen = 0 /\ shadow = NoShadow /\ pending = "none"
  /\ pre = [ref |-> FALSE, scrollTop |-> 0, scrollHeight |-> 0,
            wasNearBottom |-> FALSE, hadScrollbar |-> FALSE,
            last |-> "init", farRun |-> FALSE, pending |-> "none",
            listeners |-> {}, observers |-> {}]
  /\ newChatName = "" /\ question = ""
  /\ eventQueue = <<>>
  /\ lastForm = "init"
  /\ preForm = [newChatName |-> "", question |-> "", eventQueue |-> <<>>]

(* ------------------------------ actions -------------------------------- *)
\* The component mounts: a fresh container is attached to ref_dsholwzz, the
\* two flags are created false (lines 152-156) and the effect is scheduled.
Mount(sh, ch) ==
  /\ UNCHANGED formVars
  /\ ~ref /\ cleanup = NoCleanup
  /\ ref' = TRUE
  /\ scrollTop' = 0 /\ scrollHeight' = sh /\ clientHeight' = ch
  /\ wasNearBottom' = FALSE /\ hadScrollbar' = FALSE
  /\ effectPending' = TRUE
  /\ pre' = Snapshot /\ last' = "mount" /\ wrote' = FALSE
  /\ farRun' = FALSE /\ sampledHeight' = 0
  /\ seqLen' = 0 /\ shadow' = NoShadow /\ pending' = "none"
  /\ UNCHANGED <<scrollListeners, resizeObservers, cleanup>>

\* The component function runs again (a new snapshot of the remote state):
\* the effect, which has no dependency list, is scheduled again.
Render ==
  /\ UNCHANGED formVars
  /\ ref /\ ~effectPending
  /\ effectPending' = TRUE
  /\ pre' = Snapshot /\ last' = "render" /\ wrote' = FALSE
  /\ seqLen' = 0 /\ shadow' = NoShadow
  /\ UNCHANGED <<ref, scrollTop, scrollHeight, clientHeight, wasNearBottom,
                 hadScrollbar, scrollListeners, resizeObservers, cleanup,
                 farRun, sampledHeight, pending>>

\* The content of the container changes its height (a message is appended
\* or removed, an image loads): layout sets scrollHeight.
Mutate(sh) ==
  /\ UNCHANGED formVars
  /\ ref /\ sh # scrollHeight
  /\ scrollHeight' = sh
  /\ pre' = Snapshot /\ last' = "mutate" /\ wrote' = FALSE
  /\ farRun' = (farRun /\ sh > scrollHeight)
  /\ seqLen' = IF last = "mutate" THEN Min(seqLen + 1, MaxSeq) ELSE 1
  /\ LET base == IF last = "mutate" THEN shadow
                 ELSE [scrollTop |-> scrollTop, hadScrollbar |-> hadScrollbar,
                       transition |-> FALSE]
         r == scrollToBottomIfNeeded(TRUE, base.scrollTop, sh, clientHeight,
                                     wasNearBottom, base.hadScrollbar)
     IN shadow' = [scrollTop |-> r.scrollTop, hadScrollbar |-> r.hadScrollbar,
                   transition |-> base.transition
                                  \/ (~base.hadScrollbar
                                      /\ HasScrollbar(sh, clientHeight))]
  /\ pending' = IF sh < scrollHeight THEN "shrunk"
                ELSE IF pending # "none" THEN pending
                ELSE IF /\ cleanup # NoCleanup
                        /\ HasScrollbar(scrollHeight, clientHeight)
                        /\ IsNearBottom(scrollTop, scrollHeight, clientHeight)
                       THEN "near" ELSE "far"
  /\ UNCHANGED <<ref, scrollTop, clientHeight, wasNearBottom, hadScrollbar,
                 scrollListeners, resizeObservers, cleanup, effectPending,
                 sampledHeight>>

\* Positions a scroll event can report: within the scrollable range, or the
\* position the container already has.
Positions == {t \in Grid : t + clientHeight <= scrollHeight} \cup {0, scrollTop}

\* A scroll event is delivered to the registered listener (line 203): the
\* container is at position t and checkIfNearBottom runs.
ScrollEvent(t) ==
  /\ UNCHANGED formVars
  /\ scrollListeners # {}
  /\ t \in Positions
  /\ LET st == IF ref THEN t ELSE scrollTop
         f == checkIfNearBottom(ref, st, scrollHeight, clientHeight,
                                wasNearBottom, hadScrollbar)
     IN /\ scrollTop' = st
        /\ wasNearBottom' = f.wasNearBottom
        /\ hadScrollbar' = f.hadScrollbar
        /\ farRun' = IF ref
                       THEN HasScrollbar(scrollHeight, clientHeight)
                            /\ ~IsNearBottom(st, scrollHeight, clientHeight)
                       ELSE farRun
        /\ sampledHeight' = IF ref THEN scrollHeight ELSE sampledHeight
  /\ pre' = Snapshot /\ last' = "scroll" /\ wrote' = FALSE
  /\ seqLen' = 0 /\ shadow' = NoShadow
  /\ pending' = IF ref /\ t # scrollTop /\ pending # "none"
                  THEN "moved" ELSE pending
  /\ UNCHANGED <<ref, scrollHeight, clientHeight, scrollListeners,
                 resizeObservers, cleanup, effectPending>>

\* The ResizeObserver callback (lines 198-200) runs scrollToBottomIfNeeded.
ResizeNotify ==
  /\ UNCHANGED formVars
  /\ resizeObservers # {}
  /\ LET r == scrollToBottomIfNeeded(ref, scrollTop, scrollHeight,
                                     clientHeight, wasNearBottom, hadScrollbar)
     IN /\ scrollTop' = r.scrollTop
        /\ hadScrollbar' = r.hadScrollbar
        /\ wrote' = r.wrote
  /\ pre' = Snapshot /\ last' = "notify"
  /\ pending' = IF ref THEN "none" ELSE pending
  /\ UNCHANGED <<ref, scrollHeight, clientHeight, wasNearBottom,
                 scrollListeners, resizeObservers, cleanup, effectPending,
                 farRun, sampledHeight, seqLen, shadow>>

\* The identity of the closures one effect run creates (the listener
\* function of this render and the ResizeObserver of line 198).
FreshId(used) == CHOOSE i \in Ids \ used : \A j \in Ids \ used : i <= j

\* A cleanup that releases nothing.
Released_Nothing(registered, id) == registered

\* What the cleanup of lines 211-214 leaves registered.
Released(registered, id) == registered \ {id}

\* The effect with the initial check of line 206 moved before line 195.
useEffectBody_SampleFirst(present, st, sh, ch, was, had) ==
  LET f == checkIfNearBottom(present, st, sh, ch, was, had)
      r == scrollToBottomIfNeeded(present, st, sh, ch, f.wasNearBottom,
                                  f.hadScrollbar)
  IN [scrollTop |-> r.scrollTop, wrote |-> r.wrote,
      wasNearBottom |-> f.wasNearBottom, hadScrollbar |-> r.hadScrollbar]

\* Lines 195-206: what one effect run does to the container and the flags,
\* scrollToBottomIfNeeded (line 195) first, checkIfNearBottom (line 206) on
\* the geometry it leaves.
useEffectBody(present, st, sh, ch, was, had) ==
  LET r == scrollToBottomIfNeeded(present, st, sh, ch, was, had)
      f == checkIfNearBottom(present, r.scrollTop, sh, ch, was, r.hadScrollbar)
  IN [scrollTop |-> r.scrollTop, wrote |-> r.wrote,
      wasNearBottom |-> f.wasNearBottom, hadScrollbar |-> f.hadScrollbar]

\* One run of the effect (lines 191-215), preceded by the cleanup the
\* previous run returned.
RunEffect ==
  /\ UNCHANGED formVars
  /\ effectPending
  /\ effectPending' = FALSE
  /\ LET ls == Released(scrollListeners, cleanup)
         os == Released(resizeObservers, cleanup)
     IN IF ~ref
          THEN /\ scrollListeners' = ls /\ resizeObservers' = os
               /\ cleanup' = NoCleanup
               /\ wrote' = FALSE
               /\ UNCHANGED <<scrollTop, wasNearBottom, hadScrollbar, farRun,
                              sampledHeight, pending>>
          ELSE /\ Ids \ (ls \cup os) # {}
               /\ LET id == FreshId(ls \cup os)
                      f == useEffectBody(ref, scrollTop, scrollHeight,
                             clientHeight, wasNearBottom, hadScrollbar)
                  IN /\ scrollTop' = f.scrollTop
                     /\ wrote' = f.wrote
                     /\ wasNearBottom' = f.wasNearBottom
                     /\ hadScrollbar' = f.hadScrollbar
                     /\ scrollListeners' = ls \cup {id}
                     /\ resizeObservers' = os \cup {id}
                     /\ cleanup' = id
                     /\ farRun' = (HasScrollbar(scrollHeight, clientHeight)
                                   /\ ~f.wasNearBottom)
                     /\ sampledHeight' = scrollHeight
                     /\ pending' = "none"
  /\ pre' = Snapshot /\ last' = "effect"
  /\ seqLen' = 0 /\ shadow' = NoShadow
  /\ UNCHANGED <<ref, scrollHeight, clientHeight>>

\* The container leaves the document: the reference is cleared.
Unmount ==
  /\ UNCHANGED formVars
  /\ ref
  /\ ref' = FALSE
  /\ pre' = Snapshot /\ last' = "unmount" /\ wrote' = FALSE
  /\ farRun' = FALSE
  /\ seqLen' = 0 /\ shadow' = NoShadow /\ pending' = "none"
  /\ UNCHANGED <<scrollTop, scrollHeight, clientHeight, wasNearBottom,
                 hadScrollbar, scrollListeners, resizeObservers, cleanup,
                 effectPending, sampledHeight>>

\* The cleanup of the last effect run (lines 211-214) runs after unmount.
Cleanup ==
  /\ UNCHANGED formVars
  /\ ~ref /\ cleanup # NoCleanup
  /\ scrollListeners' = Released(scrollListeners, cleanup)
  /\ resizeObservers' = Released(resizeObservers, cleanup)
  /\ cleanup' = NoCleanup
  /\ pre' = Snapshot /\ last' = "cleanup" /\ wrote' = FALSE
  /\ seqLen' = 0 /\ shadow' = NoShadow
  /\ UNCHANGED <<ref, scrollTop, scrollHeight, clientHeight, wasNearBottom,
                 hadScrollbar, effectPending, farRun, sampledHeight, pending>>

Next ==
  \/ \E sh \in Grid, ch \in Grid : Mount(sh, ch)
  \/ Render
  \/ \E sh \in Grid : Mutate(sh)
  \/ \E t \in Grid : ScrollEvent(t)
  \/ ResizeNotify
  \/ RunEffect
  \/ Unmount
  \/ Cleanup

\* The message container and its auto-scroll controller.
Spec == Init /\ [][Next]_vars

(* ------------------------------- forms --------------------------------- *)
\* Event(name, payload) of lines 35 and 104, the payload being the one entry
\* of form_data.
Event(name, key, value) ==
  [name |-> name, form_data |-> [key |-> key, value |-> value]]

\* The question handler resetting the form before it reads the field.
handleSubmit_6ee42e18d31e23c9e8c64ec3bcf76e76_ResetFirst(field) ==
  [event |-> Event(ProcessQuestionEvent, "question", ""), field |-> ""]

\* lines 30-40: the create-chat form; form_data is the FormData entry of the
\* field named new_chat_name, and the reset of line 38 is never reached.
handleSubmit_fe487b687c6a6dff9bb8561e95f8b9e8(field) ==
  [event |-> Event(CreateChatEvent, "new_chat_name", field),
   field |-> IF FALSE THEN "" ELSE field]

\* lines 99-109: the question form; its field has no name, so form_data is
\* the entry question -> getRefValue(ref_question), and the form is reset.
handleSubmit_6ee42e18d31e23c9e8c64ec3bcf76e76(field) ==
  [event |-> Event(ProcessQuestionEvent, "question", field),
   field |-> IF TRUE THEN "" ELSE field]

FormSnapshot == [newChatName |-> newChatName, question |-> question,
                 eventQueue |-> eventQueue]

\* The user edits the field of the create-chat form (line 54).
TypeChatName(v) ==
  /\ v # newChatName
  /\ newChatName' = v
  /\ lastForm' = "type" /\ preForm' = FormSnapshot
  /\ UNCHANGED <<question, eventQueue, scrollVars>>

\* The user edits the field of the question form (lines 124-125).
TypeQuestion(v) ==
  /\ v # question
  /\ question' = v
  /\ lastForm' = "type" /\ preForm' = FormSnapshot
  /\ UNCHANGED <<newChatName, eventQueue, scrollVars>>

\* onSubmit of the create-chat form (line 50).
SubmitCreateChat ==
  /\ Len(eventQueue) < MaxQueue
  /\ LET r == handleSubmit_fe487b687c6a6dff9bb8561e95f8b9e8(newChatName)
     IN /\ eventQueue' = Append(eventQueue, r.event)
        /\ newChatName' = r.field
  /\ lastForm' = "submitCreateChat" /\ preForm' = FormSnapshot
  /\ UNCHANGED <<question, scrollVars>>

\* onSubmit of the question form (line 119).
SubmitQuestion ==
  /\ Len(eventQueue) < MaxQueue
  /\ LET r == handleSubmit_6ee42e18d31e23c9e8c64ec3bcf76e76(question)
     IN /\ eventQueue' = Append(eventQueue, r.event)
        /\ question' = r.field
  /\ lastForm' = "submitQuestion" /\ preForm' = FormSnapshot
  /\ UNCHANGED <<newChatName, scrollVars>>

\* line 69: the dialog reports that it opened or closed.
on_open_change_03c05b101f59e51f97227c368fbb9306(is_open) ==
  /\ Len(eventQueue) < MaxQueue
  /\ eventQueue' = Append(eventQueue,
                          Event(SetIsModalOpenEvent, "is_open", is_open))
  /\ lastForm' = "openChange" /\ preForm' = FormSnapshot
  /\ UNCHANGED <<newChatName, question, scrollVars>>

\* line 274: onClick of the button of one listed chat.
SetChatClick(chat) ==
  /\ Len(eventQueue) < MaxQueue
  /\ eventQueue' = Append(eventQueue, Event(SetChatEvent, "chat_name", chat))
  /\ lastForm' = "setChat" /\ preForm' = FormSnapshot
  /\ UNCHANGED <<newChatName, question, scrollVars>>

\* line 279: onClick of the trash icon of one listed chat.
DeleteChatClick(chat) ==
  /\ Len(eventQueue) < MaxQueue
  /\ eventQueue' = Append(eventQueue,
                          Event(DeleteChatEvent, "chat_name", chat))
  /\ lastForm' = "deleteChat" /\ preForm' = FormSnapshot
  /\ UNCHANGED <<newChatName, question, scrollVars>>

\* The event loop behind addEvents takes the oldest queued event.
ProcessEvent ==
  /\ eventQueue # <<>>
  /\ eventQueue' = Tail(eventQueue)
  /\ lastForm' = "process" /\ preForm' = FormSnapshot
  /\ UNCHANGED <<newChatName, question, scrollVars>>

NextForms ==
  \/ \E v \in Texts : TypeChatName(v)
  \/ \E v \in Texts : TypeQuestion(v)
  \/ SubmitCreateChat
  \/ SubmitQuestion
  \/ \E is_open \in BOOLEAN : on_open_change_03c05b101f59e51f97227c368fbb9306(is_open)
  \/ \E chat \in ChatTitles : SetChatClick(chat)
  \/ \E chat \in ChatTitles : DeleteChatClick(chat)
  \/ ProcessEvent

\* The forms, the other event sources and the dispatcher's queue.
SpecForms == Init /\ [][NextForms]_vars

TypeOK ==
  /\ ref \in BOOLEAN
  /\ scrollTop \in Grid /\ scrollHeight \in Grid /\ clientHeight \in Grid
  /\ wasNearBottom \in BOOLEAN /\ hadScrollbar \in BOOLEAN
  /\ scrollListeners \subseteq Ids /\ resizeObservers \subseteq Ids
  /\ cleanup \in Ids \cup {NoCleanup}
  /\ effectPending \in BOOLEAN

(* ------------------------------ properties ----------------------------- *)
\* The last handler ran scrollToBottomIfNeeded on a present container; pre
\* holds the scrollTop and the flags that call started from.
Reconciled == last \in {"notify", "effect"} /\ ref

\* C1 (as stated): whatever the flags are, a reconcile on a container with
\* scrollHeight <= clientHeight leaves scrollTop exactly as it was.
C1_NoOverflowNeverScrolled ==
  (Reconciled /\ scrollHeight <= clientHeight) => scrollTop = pre.scrollTop

\* C1 (amended): a reconcile on a container with scrollHeight <= clientHeight
\* leaves scrollTop as it was, and does not assign it, whenever wasNearBottom
\* is false (whatever hadScrollbar is); when wasNearBottom is true it assigns
\* scrollTop = scrollHeight.
C1_NoOverflowScrolledOnlyIfNear ==
  (Reconciled /\ scrollHeight <= clientHeight) =>
     IF pre.wasNearBottom
       THEN wrote /\ scrollTop = scrollHeight
       ELSE ~wrote /\ scrollTop = pre.scrollTop

C1_Witness ==
  /\ last = "notify" /\ ref
  /\ scrollHeight <= clientHeight
  /\ ~pre.wasNearBottom /\ pre.hadScrollbar
  /\ scrollTop # scrollHeight

\* C2: a sample taken at a distance from the bottom of at most 50, followed
\* by a reconcile on the same geometry, ends with scrollTop = scrollHeight.
C2_NearBottomSnapped ==
  (/\ last = "notify" /\ ref
   /\ pre.last \in {"scroll", "effect"}
   /\ DistanceFromBottom(pre.scrollTop, scrollHeight, clientHeight)
        <= nearBottomThreshold)
  => (wrote /\ scrollTop = scrollHeight)

C2_Witness ==
  /\ last = "notify" /\ ref /\ pre.last = "scroll"
  /\ HasScrollbar(scrollHeight, clientHeight)
  /\ DistanceFromBottom(pre.scrollTop, scrollHeight, clientHeight)
       = nearBottomThreshold
  /\ scrollTop = scrollHeight

\* C3: a reconcile that starts with hadScrollbar false on a container that
\* now overflows sets scrollTop to scrollHeight, whatever wasNearBottom is.
C3_TransitionSnaps ==
  (Reconciled /\ ~pre.hadScrollbar /\ HasScrollbar(scrollHeight, clientHeight))
  => (wrote /\ scrollTop = scrollHeight)

C3_Witness ==
  /\ last = "notify" /\ ref
  /\ ~pre.hadScrollbar /\ ~pre.wasNearBottom
  /\ HasScrollbar(scrollHeight, clientHeight)
  /\ pre.scrollTop # scrollHeight /\ scrollTop = scrollHeight

\* C4: after a sample taken on an overflowing container more than 50 from
\* the bottom, every reconcile that follows growths of the content, with no
\* new sample in between, leaves scrollTop unchanged.
C4_FarUserNotMoved ==
  (Reconciled /\ pre.farRun) => (~wrote /\ scrollTop = pre.scrollTop)

C4_Witness ==
  /\ last = "notify" /\ ref /\ farRun
  /\ pre.last = "mutate"
  /\ scrollHeight > sampledHeight
  /\ scrollTop = pre.scrollTop

\* C5: after a reconcile hadScrollbar equals (scrollHeight > clientHeight),
\* and a second reconcile right after it changes neither scrollTop nor a
\* flag; it assigns scrollTop only if wasNearBottom is true.
C5_ReconcileIdempotent ==
  /\ (last = "notify" /\ ref)
       => hadScrollbar = HasScrollbar(scrollHeight, clientHeight)
  /\ (last = "notify" /\ pre.last = "notify" /\ ref)
       => /\ scrollTop = pre.scrollTop
          /\ wasNearBottom = pre.wasNearBottom
          /\ hadScrollbar = pre.hadScrollbar
          /\ (wrote => wasNearBottom)

C5_Witness ==
  /\ last = "notify" /\ pre.last = "notify" /\ ref
  /\ HasScrollbar(scrollHeight, clientHeight)
  /\ wrote

\* C6 (as stated): in every interleaving, a user who was within 50 of the
\* bottom of an overflowing, observed container before its content grew,
\* and who has not moved the scroll position since, is at
\* scrollTop = scrollHeight after the reconcile that follows the growth.
C6_NearUserAlwaysFollowed ==
  (Reconciled /\ pre.pending = "near") => scrollTop = scrollHeight

\* C7 (as stated): one reconcile after a sequence of content mutations ends
\* in the same scrollTop and flags as a reconcile after each mutation.
C7_CoalescingHarmless ==
  (last = "notify" /\ ref /\ pre.last = "mutate") =>
     /\ scrollTop = shadow.scrollTop
     /\ hadScrollbar = shadow.hadScrollbar
     /\ wasNearBottom = pre.wasNearBottom

\* C7 (amended): one reconcile after a sequence of content mutations ends in
\* the same scrollTop and flags as a reconcile after each mutation whenever
\* wasNearBottom is true, or no reconcile of the per-mutation run finds the
\* container going from not overflowing to overflowing.
C7_CoalescingHarmlessIfNearOrNoTransition ==
  (/\ last = "notify" /\ ref /\ pre.last = "mutate"
   /\ (pre.wasNearBottom \/ ~shadow.transition)) =>
     /\ scrollTop = shadow.scrollTop
     /\ hadScrollbar = shadow.hadScrollbar
     /\ wasNearBottom = pre.wasNearBottom

C7_Witness ==
  /\ last = "notify" /\ ref /\ pre.last = "mutate"
  /\ seqLen >= 2
  /\ ~pre.wasNearBottom /\ ~shadow.transition
  /\ HasScrollbar(scrollHeight, clientHeight)

\* C8: with the container reference absent, sample, reconcile and the effect
\* change neither flag, write no scroll position, and the effect registers
\* no scroll listener and no resize observer.
C8_AbsentContainerNoOp ==
  (last \in {"scroll", "notify", "effect"} /\ ~ref) =>
     /\ wasNearBottom = pre.wasNearBottom
     /\ hadScrollbar = pre.hadScrollbar
     /\ scrollTop = pre.scrollTop
     /\ ~wrote
     /\ (last = "effect" =>
           /\ scrollListeners \subseteq pre.listeners
           /\ resizeObservers \subseteq pre.observers
           /\ cleanup = NoCleanup)

C8_Witness ==
  /\ last = "notify" /\ ~ref
  /\ wasNearBottom /\ scrollTop # scrollHeight

\* C9: at most one scroll listener and one resize observer are registered
\* at any time, each is the one the pending cleanup releases, and once the
\* container is unmounted and its cleanup has run none is registered.
C9_RegistrationsReleased ==
  /\ Cardinality(scrollListeners) <= 1
  /\ Cardinality(resizeObservers) <= 1
  /\ scrollListeners \subseteq {cleanup}
  /\ resizeObservers \subseteq {cleanup}
  /\ (cleanup = NoCleanup) => (scrollListeners = {} /\ resizeObservers = {})

C9_Witness ==
  /\ last = "cleanup" /\ ~ref
  /\ pre.listeners # {} /\ pre.observers # {}
  /\ scrollListeners = {} /\ resizeObservers = {}

\* C10: a submission appends exactly one event, whose payload holds the
\* field's value from before the submission; the question form dispatches
\* process_question and is then reset, the create-chat form dispatches
\* create_chat and keeps its field; neither touches the other form.
C10_SubmitDispatchesOnce ==
  /\ lastForm = "submitQuestion" =>
       /\ eventQueue = Append(preForm.eventQueue,
                         Event(ProcessQuestionEvent, "question",
                               preForm.question))
       /\ question = ""
       /\ newChatName = preForm.newChatName
  /\ lastForm = "submitCreateChat" =>
       /\ eventQueue = Append(preForm.eventQueue,
                         Event(CreateChatEvent, "new_chat_name",
                               preForm.newChatName))
       /\ newChatName = preForm.newChatName
       /\ question = preForm.question

C10_Witness ==
  /\ lastForm = "submitQuestion"
  /\ preForm.question # "" /\ question = ""
  /\ preForm.newChatName # ""
  /\ Len(eventQueue) = Len(preForm.eventQueue) + 1

\* C11: in every effect run the reconcile reads the flags from before the
\* run and the sample reads the geometry the reconcile left; in the first run
\* after mount both flags are still false, so an overflowing container is
\* set to scrollTop = scrollHeight, a container without overflow is not
\* scrolled, and the flags then come from the resulting geometry.
C11_EffectReconcilesThenSamples ==
  (last = "effect" /\ ref) =>
     /\ wrote = (pre.wasNearBottom
                 \/ (~pre.hadScrollbar
                     /\ scrollHeight > clientHeight))
     /\ scrollTop = IF wrote THEN scrollHeight ELSE pre.scrollTop
     /\ wasNearBottom =
          (scrollHeight - scrollTop - clientHeight <= nearBottomThreshold)
     /\ hadScrollbar = (scrollHeight > clientHeight)
     /\ (pre.listeners = {} =>
           /\ ~pre.wasNearBottom /\ ~pre.hadScrollbar
           /\ wrote = (scrollHeight > clientHeight))

C11_Witness ==
  /\ last = "effect" /\ ref /\ pre.listeners = {}
  /\ scrollHeight - pre.scrollTop - clientHeight > nearBottomThreshold
  /\ wrote /\ scrollTop = scrollHeight
  /\ wasNearBottom /\ hadScrollbar
=============================================================================
